---------------------------- MODULE Spec2Model ----------------------------
(***************************************************************************)
(* Heiken-Ashi backtester: the single-position simulator of backtest.py    *)
(* (backtest_strategy), the signal generator of strategy.py                *)
(* (generate_signals), the candle transform of data_loader.py              *)
(* (calculate_heiken_ashi), generate_signals followed by                   *)
(* backtest_strategy as in summary_metrics.py, the two reports on a        *)
(* finished run (calculate_performance_metrics of backtest.py and          *)
(* create_detailed_trade_log of trade_logger.py), the weekly accumulation  *)
(* backtest of stock_backtesting_algorithm.py, and a second call of the    *)
(* core functions on the input of the first.                               *)
(*                                                                         *)
(* Prices and cash are whole currency units.  An undefined value (pandas   *)
(* NaN) is the marker NaN; every comparison with it is false and           *)
(* pd.isna() recognises it.  A table row is drawn when the loop reads it:  *)
(* the rows the loop has not reached yet carry the column defaults.  The   *)
(* table of calculate_heiken_ashi is whole from the start, since the       *)
(* function reads all of it before its loop.                               *)
(***************************************************************************)
EXTENDS Integers, Sequences, FiniteSets

(* ------------------------------ bounds -------------------------------- *)

\* longest bar table given to backtest_strategy
MaxBars == 3

\* the not-a-number marker (no price, cash or indicator takes this value)
NaN == -1000000

\* Close values a bar can carry: 20 and 25 buy 500 and 400 shares, 30 buys
\* 333 shares for 9990, 10001 is dearer than the whole allocation
Closes == {NaN, 20, 25, 30, 10001}

\* starting balances: nothing, exactly one allocation, the default
InitialCashes == {0, 10000, 100000}

\* longest indicator table given to generate_signals
MaxSignalBars == 2

\* indicator values of a bar: HA_Close lies under or over the only defined
\* slow average; the fast average and the histogram can stay, rise or fall
HA_Closes == {1, 3}
HA_100_MAs == {NaN, 2}
HA_50_MAs == {NaN, 1, 2}
MACD_Hists == {NaN, -1, 1, 2}
Current_Holdings == {0, 10000}

\* weekday of the first bar (Monday = 0); the bars are consecutive days
FirstDays == 0..6

\* longest price table given to calculate_heiken_ashi
MaxHeikenBars == 2

\* The Heiken-Ashi columns are halves and quarters of sums of prices, and
\* HA_Open is halved once more on every bar.  The prices of that table are
\* counted in units of 1/Scale, so that every quotient the function takes
\* within MaxHeikenBars bars is a whole number of units.
Scale == 2 ^ (MaxHeikenBars + 1)

\* Open, High, Low and Close of a raw bar: missing, 1 or 3 currency units
Prices == {NaN, 1 * Scale, 3 * Scale}

\* longest table taken through generate_signals and then backtest_strategy
MaxPipelineBars == 3

\* the Close all bars of that table share: 10 buys 1000 shares for the whole
\* allocation, 30 buys 333 shares for 9990
ConstantCloses == {10, 30}

\* most rows of weekly.iloc[21:] given to the weekly backtest
MaxWeeks == 3

\* a week's Close, 10-week and 21-week averages, and the share caps tried
WeeklyCloses == {1, 3}
MA10s == {1, 2, 3}
MA21s == {1, 3}
MaxShares == {1, 2}

\* longest bar table given to backtest_strategy twice
MaxTwiceBars == 2

\* weekday of the first bar of a table that generate_signals is given twice:
\* a Tuesday, so that the second bar is a buy day and the third is not
TwiceFirstDays == {1}

(* --------------------------- backtest.py ------------------------------ *)

VARIABLES
    initial_cash,   \* parameter of backtest_strategy
    n,              \* len(df)
    df,             \* rows 1..i of the copied table, with the snapshot columns
    i,              \* number of rows the main pass has gone through
    cash,
    position,
    entry_price,
    trades,
    pc,             \* "loop" during the main pass, "done" once returned
    \* strategy.py, generate_signals
    holding_column, \* the input table has a Current_Holding column
    first_day,      \* day number of the first bar
    signals_n,      \* len(df)
    signals_df,     \* rows 1..signals_i of the copied table, with the signals
    signals_i,      \* number of rows read so far (the first one is only read)
    signals_pc,     \* "loop", "done"
    \* data_loader.py, calculate_heiken_ashi
    raw_df,         \* the table of Open, High, Low, Close handed in
    ha_open,        \* the list ha_open built by the loop
    ha_df,          \* the returned table, empty until the function returns
    ha_pc,          \* "start", "loop", "done", "IndexError"
    \* summary_metrics.py, generate_signals followed by backtest_strategy
    constant_close, \* the Close every bar of the table carries
    \* backtest.py, calculate_performance_metrics
    metrics,        \* the returned dictionary, empty until the function returns
    metrics_pc,     \* "idle", "returned", "ZeroDivisionError", "IndexError"
    \* trade_logger.py, create_detailed_trade_log
    trade_log,      \* the rows of the returned frame
    trade_log_pc,   \* "idle", "returned"
    \* stock_backtesting_algorithm.py, backtest_strategy
    max_shares,       \* parameter
    weekly_n,         \* number of rows of weekly.iloc[21:]
    weekly,           \* the rows of weekly.iloc[21:] the loop has read
    weekly_position,  \* position
    total_cost,
    entry_date,
    portfolio,
    weekly_signals,   \* signals
    weekly_trades,    \* trades
    weekly_pc,        \* "idle", "loop", "done"
    \* a second call on the same input
    run,              \* 1 during the first call, 2 during the second
    first_run         \* what the first call returned, empty during the first

backtest_vars ==
    <<initial_cash, n, df, i, cash, position, entry_price, trades, pc>>

signals_vars ==
    <<holding_column, first_day, signals_n, signals_df, signals_i, signals_pc>>

heiken_vars == <<raw_df, ha_open, ha_df, ha_pc>>

report_vars == <<metrics, metrics_pc, trade_log, trade_log_pc>>

\* neither calculate_performance_metrics nor create_detailed_trade_log is run
ReportIdle ==
    /\ metrics = << >>
    /\ metrics_pc = "idle"
    /\ trade_log = << >>
    /\ trade_log_pc = "idle"

weekly_vars ==
    <<max_shares, weekly_n, weekly, weekly_position, total_cost, entry_date,
      portfolio, weekly_signals, weekly_trades, weekly_pc>>

\* the weekly backtest is not run
WeeklyIdle ==
    /\ max_shares = 0
    /\ weekly_n = 0
    /\ weekly = << >>
    /\ weekly_position = 0
    /\ total_cost = 0
    /\ entry_date = 0
    /\ portfolio = 0
    /\ weekly_signals = << >>
    /\ weekly_trades = << >>
    /\ weekly_pc = "idle"

rerun_vars == <<run, first_run>>

\* the first call
RerunIdle ==
    /\ run = 1
    /\ first_run = << >>

vars == <<backtest_vars, signals_vars, heiken_vars, constant_close, report_vars, weekly_vars, rerun_vars>>

\* the nominal allocation of a Buy
Allocation == 10000

\* variant: no value is recognised as undefined
isnaNever(x) == FALSE

\* pd.isna
isna(x) == x = NaN

\* df.index[k]: unique, strictly ascending dates, counted in days
Date(k) == k

\* variant: the share count rounded up instead of down
SharesToBuyCeil(trade_price) == (Allocation + trade_price - 1) \div trade_price

\* int(10000 // trade_price)
SharesToBuy(trade_price) == Allocation \div trade_price

Cost(shares_to_buy, trade_price) == shares_to_buy * trade_price

\* variant: the Buy branch without the position test
BuyBranchAnyPosition(buy_signal, pos) == buy_signal

\* the guard of the Buy branch
BuyBranch(buy_signal, pos) == buy_signal /\ pos = 0

\* variant: the Buy is executed without the cash test
BuyExecutedNoCashTest(c, cost, shares_to_buy) == shares_to_buy > 0

\* variant: the Buy is executed without the lot-size test
BuyExecutedNoLotTest(c, cost, shares_to_buy) == c >= cost

\* the inner guard: the Buy is executed
BuyExecuted(c, cost, shares_to_buy) == c >= cost /\ shares_to_buy > 0

\* variant: the Sell branch without the position test
SellBranchAnyPosition(sell_signal, pos) == sell_signal

\* the guard of the elif branch
SellBranch(sell_signal, pos) == sell_signal /\ pos > 0

\* variant: the price of one share, not of the whole position
ProceedsOneShare(pos, price) == price

Proceeds(pos, price) == pos * price

\* variant: the entry cost of one share, not of the whole position
ProfitOneShare(pos, price, entry) == Proceeds(pos, price) - entry

Profit(pos, price, entry) == Proceeds(pos, price) - (pos * entry)

BuyTrade(date, price, shares, cash_after) ==
    [Type |-> "Buy", Date |-> date, Price |-> price, Shares |-> shares,
     Cash_After |-> cash_after]

SellTrade(type, date, price, shares, cash_after, profit) ==
    [Type |-> type, Date |-> date, Price |-> price, Shares |-> shares,
     Cash_After |-> cash_after, Profit |-> profit]

\* a row as df.copy() plus lines 15-17 leave it
NewRow(date, close, buy, sell) ==
    [Date |-> date, Close |-> close, Buy_Signal |-> buy, Sell_Signal |-> sell,
     Cash |-> 0, Holdings |-> 0, Total_Value |-> 0]

\* lines 69-71
Snapshot(row, c, pos, trade_price) ==
    [row EXCEPT !.Cash = c,
                !.Holdings = pos * trade_price,
                !.Total_Value = c + (pos * trade_price)]

\* variant: the liquidated row keeps the Holdings the main pass recorded
LiquidatedRowKeepsHoldings(row, c) ==
    [row EXCEPT !.Cash = c, !.Total_Value = c]

\* lines 93-95
LiquidatedRow(row, c) ==
    [row EXCEPT !.Cash = c, !.Holdings = 0, !.Total_Value = c]

\* variant: the last row is left as the main pass recorded it
UnliquidatedRowUntouched(row, c) == row

\* lines 103-104
UnliquidatedRow(row, c) ==
    [row EXCEPT !.Holdings = 0, !.Total_Value = c]

Init ==
    /\ initial_cash \in InitialCashes
    /\ n \in 0..MaxBars
    /\ df = << >>
    /\ i = 0
    /\ cash = initial_cash
    /\ position = 0
    /\ entry_price = 0
    /\ trades = << >>
    /\ pc = "loop"
    /\ holding_column = FALSE
    /\ first_day = 0
    /\ signals_n = 0
    /\ signals_df = << >>
    /\ signals_i = 0
    /\ signals_pc = "idle"
    /\ raw_df = << >>
    /\ ha_open = << >>
    /\ ha_df = << >>
    /\ ha_pc = "idle"
    /\ constant_close = 0
    /\ RerunIdle
    /\ WeeklyIdle
    /\ ReportIdle

\* the simulator's carried state: cash, position, entry_price, trades
State(c, pos, entry, tr) ==
    [cash |-> c, position |-> pos, entry_price |-> entry, trades |-> tr]

\* lines 30-44: the body of the Buy branch
BuyStep(S, date, trade_price) ==
    LET shares_to_buy == SharesToBuy(trade_price)
        cost == Cost(shares_to_buy, trade_price)
    IN  IF BuyExecuted(S.cash, cost, shares_to_buy)
          THEN State(S.cash - cost, shares_to_buy, trade_price,
                     Append(S.trades,
                            BuyTrade(date, trade_price, shares_to_buy,
                                     S.cash - cost)))
          ELSE S

\* variant: the Sell branch leaves entry_price as it was
SellStepKeepingEntry(S, date, trade_price) ==
    LET proceeds == Proceeds(S.position, trade_price)
        profit == Profit(S.position, trade_price, S.entry_price)
    IN  State(S.cash + proceeds, 0, S.entry_price,
              Append(S.trades,
                     SellTrade("Sell", date, trade_price, S.position,
                               S.cash + proceeds, profit)))

\* lines 50-66: the body of the Sell branch
SellStep(S, date, trade_price) ==
    LET proceeds == Proceeds(S.position, trade_price)
        profit == Profit(S.position, trade_price, S.entry_price)
    IN  State(S.cash + proceeds, 0, 0,
              Append(S.trades,
                     SellTrade("Sell", date, trade_price, S.position,
                               S.cash + proceeds, profit)))

\* variant: two ifs instead of if / elif, the Sell branch is tested on the
\* state the Buy branch left
TradeIfIf(S, date, trade_price, buy, sell) ==
    LET S1 == IF BuyBranch(buy, S.position) THEN BuyStep(S, date, trade_price)
              ELSE S
    IN  IF SellBranch(sell, S1.position) THEN SellStep(S1, date, trade_price)
        ELSE S1

\* lines 29-66: if Buy branch, elif Sell branch
Trade(S, date, trade_price, buy, sell) ==
    IF BuyBranch(buy, S.position) THEN BuyStep(S, date, trade_price)
    ELSE IF SellBranch(sell, S.position) THEN SellStep(S, date, trade_price)
    ELSE S

\* lines 20-71: one iteration of the main pass over the row (close, buy, sell)
Bar(close, buy, sell) ==
    LET date == Date(i + 1)
        row == NewRow(date, close, buy, sell)
        trade_price == close
        S == State(cash, position, entry_price, trades)
        T == IF isna(trade_price) THEN S
             ELSE Trade(S, date, trade_price, buy, sell)
    IN  /\ i' = i + 1
        /\ cash' = T.cash
        /\ position' = T.position
        /\ entry_price' = T.entry_price
        /\ trades' = T.trades
        /\ df' = Append(df, IF isna(trade_price) THEN row
                            ELSE Snapshot(row, T.cash, T.position, trade_price))
        /\ UNCHANGED <<initial_cash, n, pc>>
        /\ UNCHANGED <<signals_vars, heiken_vars, constant_close, report_vars, weekly_vars, rerun_vars>>

MainPass ==
    /\ pc = "loop"
    /\ i < n
    /\ \E close \in Closes, buy \in BOOLEAN, sell \in BOOLEAN :
          Bar(close, buy, sell)

\* lines 73-104, then the return
FinalLiquidation ==
    /\ pc = "loop"
    /\ i = n
    /\ pc' = "done"
    /\ UNCHANGED <<initial_cash, n, i>>
    /\ UNCHANGED <<signals_vars, heiken_vars, constant_close, report_vars, weekly_vars, rerun_vars>>
    /\ IF position > 0
         THEN LET last_price == df[n].Close
              IN  IF ~isna(last_price)
                    THEN /\ cash' = cash + Proceeds(position, last_price)
                         /\ trades' = Append(trades,
                               SellTrade("Final Sell", Date(n), last_price,
                                         position, cash',
                                         Profit(position, last_price, entry_price)))
                         /\ df' = [df EXCEPT ![n] = LiquidatedRow(df[n], cash')]
                         /\ position' = 0
                         /\ entry_price' = 0
                    ELSE /\ df' = [df EXCEPT ![n] = UnliquidatedRow(df[n], cash)]
                         /\ UNCHANGED <<cash, position, entry_price, trades>>
         ELSE UNCHANGED <<df, cash, position, entry_price, trades>>

Next == MainPass \/ FinalLiquidation

Spec == Init /\ [][Next]_vars

(* --------------------------- strategy.py ------------------------------ *)

\* float comparisons: false when an operand is NaN
lt(a, b) == a # NaN /\ b # NaN /\ a < b
\* variant: <= that compares the NaN marker like an ordinary number
leTotal(a, b) == a <= b

le(a, b) == a # NaN /\ b # NaN /\ a <= b

cash_limit == 10000

\* date.weekday() of a day number, Monday = 0
weekday(date) == date % 7

\* df.index[k] of the indicator table
SignalDate(k) == first_day + (k - 1)

\* Rule 1: Close < HA_100_MA
rule1(row) == lt(row.HA_Close, row.HA_100_MA)

\* variant: Rule 2 requires the fast average to fall
rule2Falling(prev, row) == lt(row.HA_50_MA, prev.HA_50_MA)

\* Rule 2: HA_50_MA not increasing
rule2(prev, row) == le(row.HA_50_MA, prev.HA_50_MA)

\* Rule 3: MACD histogram negative or decreasing
rule3(prev, row) ==
    lt(row.MACD_Hist, 0) \/ lt(row.MACD_Hist, prev.MACD_Hist)

\* line 34
SellRules(prev, row) == rule1(row) /\ rule2(prev, row) /\ rule3(prev, row)

\* variant: every weekday is a buy day
is_buy_dayAlways(date) == TRUE

\* line 39: the weekday is Monday, Wednesday or Friday
is_buy_day(date) == weekday(date) \in {0, 2, 4}

\* variant: a holding equal to the cap still counts as under it
under_limitInclusive(row) == le(row.Current_Holding, cash_limit)

under_limit(row) == lt(row.Current_Holding, cash_limit)

\* variant: the Buy rules without the test of the bar's own Sell signal
BuyRulesIgnoringSell(date, row, sell_signal) ==
    is_buy_day(date) /\ under_limit(row)

\* line 43: is_buy_day and under_limit and not_sell_day
BuyRules(date, row, sell_signal) ==
    is_buy_day(date) /\ under_limit(row) /\ ~sell_signal

\* the indicator columns of a bar, lines 8-12 applied
SignalRow(date, ha_close, ma100, ma50, hist, holding) ==
    [Date |-> date, HA_Close |-> ha_close, HA_100_MA |-> ma100,
     HA_50_MA |-> ma50, MACD_Hist |-> hist, Current_Holding |-> holding,
     Buy_Signal |-> FALSE, Sell_Signal |-> FALSE]

SignalRows(date) ==
    { SignalRow(date, c, s, f, h, ch) :
         c \in HA_Closes, s \in HA_100_MAs, f \in HA_50_MAs, h \in MACD_Hists,
         ch \in IF holding_column THEN Current_Holdings ELSE {0} }

SignalInit ==
    /\ initial_cash = 0
    /\ n = 0
    /\ df = << >>
    /\ i = 0
    /\ cash = 0
    /\ position = 0
    /\ entry_price = 0
    /\ trades = << >>
    /\ pc = "idle"
    /\ holding_column \in BOOLEAN
    /\ first_day \in FirstDays
    /\ signals_n \in 0..MaxSignalBars
    /\ signals_df = << >>
    /\ signals_i = 0
    /\ signals_pc = "loop"
    /\ raw_df = << >>
    /\ ha_open = << >>
    /\ ha_df = << >>
    /\ ha_pc = "idle"
    /\ constant_close = 0
    /\ RerunIdle
    /\ WeeklyIdle
    /\ ReportIdle

\* the first bar is read (as the previous bar of the second) but gets no signal
FirstBar ==
    /\ signals_pc = "loop"
    /\ signals_i = 0
    /\ signals_n > 0
    /\ \E row \in SignalRows(SignalDate(1)) : signals_df' = <<row>>
    /\ signals_i' = 1
    /\ UNCHANGED <<holding_column, first_day, signals_n, signals_pc>>
    /\ UNCHANGED <<backtest_vars, heiken_vars, constant_close, report_vars, weekly_vars, rerun_vars>>

\* lines 17-44: one iteration of the loop
SignalBar ==
    /\ signals_pc = "loop"
    /\ signals_i >= 1
    /\ signals_i < signals_n
    /\ LET date == SignalDate(signals_i + 1)
           prev == signals_df[signals_i]
       IN  \E row \in SignalRows(date) :
              LET sell == SellRules(prev, row)
                  buy == BuyRules(date, row, sell)
              IN  signals_df' = Append(signals_df,
                      [row EXCEPT !.Sell_Signal = sell, !.Buy_Signal = buy])
    /\ signals_i' = signals_i + 1
    /\ UNCHANGED <<holding_column, first_day, signals_n, signals_pc>>
    /\ UNCHANGED <<backtest_vars, heiken_vars, constant_close, report_vars, weekly_vars, rerun_vars>>

\* line 46
SignalsReturn ==
    /\ signals_pc = "loop"
    /\ signals_i = signals_n
    /\ signals_pc' = "done"
    /\ UNCHANGED <<holding_column, first_day, signals_n, signals_df, signals_i>>
    /\ UNCHANGED <<backtest_vars, heiken_vars, constant_close, report_vars, weekly_vars, rerun_vars>>

SignalNext == FirstBar \/ SignalBar \/ SignalsReturn

SignalSpec == SignalInit /\ [][SignalNext]_vars

(* ------------------- data_loader.py, calculate_heiken_ashi ------------ *)

\* float addition and division: an undefined operand gives an undefined result
add(a, b) == IF a = NaN \/ b = NaN THEN NaN ELSE a + b

divide(a, d) == IF a = NaN THEN NaN ELSE a \div d

Max(S) == CHOOSE x \in S : \A y \in S : y <= x

Min(S) == CHOOSE x \in S : \A y \in S : x <= y

Defined(S) == { x \in S : x # NaN }

\* DataFrame.max(axis=1) and DataFrame.min(axis=1) skip the undefined cells
\* of a row; a row of undefined cells gives an undefined value
row_max(S) == IF Defined(S) = {} THEN NaN ELSE Max(Defined(S))

row_min(S) == IF Defined(S) = {} THEN NaN ELSE Min(Defined(S))

OHLCRows == [Open : Prices, High : Prices, Low : Prices, Close : Prices]

HeikenTables == UNION { [1..len -> OHLCRows] : len \in 0..MaxHeikenBars }

\* line 47: ha_close = (open_ + high + low + close) / 4
ha_close(row) ==
    divide(add(add(add(row.Open, row.High), row.Low), row.Close), 4)

InitialHAOpenOfEmpty(table) ==
    IF Len(table) = 0
    THEN [raised |-> FALSE, value |-> << >>]
    ELSE [raised |-> FALSE,
          value |-> <<divide(add(table[1].Open, table[1].Close), 2)>>]

\* line 50: ha_open = [(open_.iloc[0] + close.iloc[0]) / 2]; iloc[0] of a
\* series without rows raises IndexError
InitialHAOpen(table) ==
    IF Len(table) = 0
    THEN [raised |-> TRUE, value |-> << >>]
    ELSE [raised |-> FALSE,
          value |-> <<divide(add(table[1].Open, table[1].Close), 2)>>]

NextHAOpenNotAveraged(prev_ha_open, prev_ha_close) == prev_ha_close

\* lines 52-54: (prev_ha_open + prev_ha_close) / 2
NextHAOpen(prev_ha_open, prev_ha_close) ==
    divide(add(prev_ha_open, prev_ha_close), 2)

HA_HighOfBody(high, o, c) == row_max({o, c})

\* line 59: the row maximum of High, HA_Open, HA_Close
HA_High(high, o, c) == row_max({high, o, c})

\* line 60: the row minimum of Low, HA_Open, HA_Close
HA_Low(low, o, c) == row_min({low, o, c})

\* lines 38, 57-60: a row of the copy with its four new columns
HeikenRow(row, o) ==
    [Open |-> row.Open, High |-> row.High, Low |-> row.Low,
     Close |-> row.Close,
     HA_Close |-> ha_close(row),
     HA_Open |-> o,
     HA_High |-> HA_High(row.High, o, ha_close(row)),
     HA_Low |-> HA_Low(row.Low, o, ha_close(row))]

HeikenInit ==
    /\ initial_cash = 0
    /\ n = 0
    /\ df = << >>
    /\ i = 0
    /\ cash = 0
    /\ position = 0
    /\ entry_price = 0
    /\ trades = << >>
    /\ pc = "idle"
    /\ holding_column = FALSE
    /\ first_day = 0
    /\ signals_n = 0
    /\ signals_df = << >>
    /\ signals_i = 0
    /\ signals_pc = "idle"
    /\ raw_df \in HeikenTables
    /\ ha_open = << >>
    /\ ha_df = << >>
    /\ ha_pc = "start"
    /\ constant_close = 0
    /\ RerunIdle
    /\ WeeklyIdle
    /\ ReportIdle

\* lines 38-50: the copy, the four numeric series, ha_close and the first
\* element of ha_open
HeikenStart ==
    /\ ha_pc = "start"
    /\ LET first == InitialHAOpen(raw_df)
       IN  IF first.raised
           THEN /\ ha_pc' = "IndexError"
                /\ UNCHANGED ha_open
           ELSE /\ ha_pc' = "loop"
                /\ ha_open' = first.value
    /\ UNCHANGED <<raw_df, ha_df>>
    /\ UNCHANGED <<backtest_vars, signals_vars, constant_close, report_vars, weekly_vars, rerun_vars>>

\* lines 51-54: one iteration of for i in range(1, len(df))
HeikenLoop ==
    /\ ha_pc = "loop"
    /\ Len(ha_open) < Len(raw_df)
    /\ LET prev == Len(ha_open)
       IN  ha_open' = Append(ha_open,
               NextHAOpen(ha_open[prev], ha_close(raw_df[prev])))
    /\ UNCHANGED <<raw_df, ha_df, ha_pc>>
    /\ UNCHANGED <<backtest_vars, signals_vars, constant_close, report_vars, weekly_vars, rerun_vars>>

\* lines 57-62: the four columns are stored and the copy is returned
HeikenReturn ==
    /\ ha_pc = "loop"
    /\ Len(ha_open) >= Len(raw_df)
    /\ ha_df' = [k \in 1..Len(raw_df) |-> HeikenRow(raw_df[k], ha_open[k])]
    /\ ha_pc' = "done"
    /\ UNCHANGED <<raw_df, ha_open>>
    /\ UNCHANGED <<backtest_vars, signals_vars, constant_close, report_vars, weekly_vars, rerun_vars>>

HeikenNext == HeikenStart \/ HeikenLoop \/ HeikenReturn

HeikenSpec == HeikenInit /\ [][HeikenNext]_vars

(* ------------ backtest.py, calculate_performance_metrics -------------- *)

\* Python's None
None == -1

\* a float quotient num / den, kept as its two terms; den = 0 is the NaN or
\* infinity that numpy returns for a division by zero
Ratio(num, den) == [num |-> num, den |-> den]

RatioDefined(r) == r.den # 0

\* a <= b for quotients with positive denominators: the whole parts are
\* compared first and, when they are equal, the fractional parts through
\* their inverses (no product of a numerator and a denominator is formed)
RECURSIVE RatioLE(_, _)
RatioLE(a, b) ==
    IF a.num \div a.den # b.num \div b.den
    THEN a.num \div a.den < b.num \div b.den
    ELSE IF a.num % a.den = 0 THEN TRUE
    ELSE IF b.num % b.den = 0 THEN FALSE
    ELSE RatioLE(Ratio(b.den, b.num % b.den), Ratio(a.den, a.num % a.den))

\* line 127: df['Total_Value'].cummax() at row k
Peak(table, k) == Max({ table[j].Total_Value : j \in 1..k })

\* line 128: (Total_Value - Peak) / Peak * 100
Drawdown(total_value, peak) == Ratio(100 * (total_value - peak), peak)

\* lines 127-128: the two columns are stored in the table that was passed in
WithDrawdown(table) ==
    [k \in 1..Len(table) |->
        [Date |-> table[k].Date, Close |-> table[k].Close,
         Buy_Signal |-> table[k].Buy_Signal,
         Sell_Signal |-> table[k].Sell_Signal,
         Cash |-> table[k].Cash, Holdings |-> table[k].Holdings,
         Total_Value |-> table[k].Total_Value,
         Peak |-> Peak(table, k),
         Drawdown |-> Drawdown(table[k].Total_Value, Peak(table, k))]]

\* line 129: Series.min() skips the undefined values
max_drawdown(table) ==
    LET defined == { table[k].Drawdown : k \in
                       { j \in 1..Len(table) : RatioDefined(table[j].Drawdown) } }
    IN  IF defined = {} THEN Ratio(0, 0)
        ELSE CHOOSE x \in defined : \A y \in defined : RatioLE(x, y)

IsCompleted(t) == t.Type \in {"Sell", "Final Sell"}

\* line 132
IsProfitable(t) == IsCompleted(t) /\ t.Profit > 0

\* line 133
IsLosing(t) == IsCompleted(t) /\ t.Profit <= 0

profitable_trades(tr) == SelectSeq(tr, IsProfitable)

losing_trades(tr) == SelectSeq(tr, IsLosing)

\* line 135: the integer division raises when the list has trades but no
\* completed one
win_rate(tr) ==
    IF Len(tr) > 0
    THEN IF Len(SelectSeq(tr, IsCompleted)) = 0
         THEN [raised |-> TRUE, value |-> Ratio(0, 0)]
         ELSE [raised |-> FALSE,
               value |-> Ratio(100 * Len(profitable_trades(tr)),
                               Len(SelectSeq(tr, IsCompleted)))]
    ELSE [raised |-> FALSE, value |-> Ratio(0, 1)]

\* lines 138-145: the loop over trades[k..], with buy_date and the list so far
RECURSIVE holding_periods(_, _, _, _)
holding_periods(tr, k, buy_date, periods) ==
    IF k > Len(tr) THEN periods
    ELSE IF tr[k].Type = "Buy"
         THEN holding_periods(tr, k + 1, tr[k].Date, periods)
    ELSE IF IsCompleted(tr[k]) /\ buy_date # None
         THEN holding_periods(tr, k + 1, None,
                              Append(periods, tr[k].Date - buy_date))
    ELSE holding_periods(tr, k + 1, buy_date, periods)

RECURSIVE Sum(_)
Sum(s) == IF s = << >> THEN 0 ELSE Head(s) + Sum(Tail(s))

\* line 147: np.mean(holding_periods) if holding_periods else 0
avg_holding_period(periods) ==
    IF periods # << >> THEN Ratio(Sum(periods), Len(periods)) ELSE Ratio(0, 1)

\* lines 123-124 and 149-158: the returned dictionary
Metrics(table, tr, initial) ==
    LET final_value == table[Len(table)].Total_Value
    IN  [total_return |-> Ratio(100 * (final_value - initial), initial),
         final_value |-> final_value,
         max_drawdown |-> max_drawdown(table),
         num_trades |-> Len(tr),
         win_rate |-> win_rate(tr).value,
         avg_holding_period |->
             avg_holding_period(holding_periods(tr, 1, None, << >>)),
         profitable_trades |-> Len(profitable_trades(tr)),
         losing_trades |-> Len(losing_trades(tr))]

\* calculate_performance_metrics(df, trades, initial_cash) on what
\* backtest_strategy returned: iloc[-1] raises on a table without rows, the
\* two new columns are stored before the win rate is computed
CalculatePerformanceMetrics ==
    /\ pc = "done"
    /\ metrics_pc = "idle"
    /\ IF n = 0
       THEN /\ metrics_pc' = "IndexError"
            /\ UNCHANGED <<df, metrics>>
       ELSE /\ df' = WithDrawdown(df)
            /\ IF win_rate(trades).raised
               THEN /\ metrics_pc' = "ZeroDivisionError"
                    /\ UNCHANGED metrics
               ELSE /\ metrics_pc' = "returned"
                    /\ metrics' = Metrics(df', trades, initial_cash)
    /\ UNCHANGED <<initial_cash, n, i, cash, position, entry_price, trades, pc>>
    /\ UNCHANGED <<trade_log, trade_log_pc>>
    /\ UNCHANGED <<signals_vars, heiken_vars, constant_close, weekly_vars, rerun_vars>>

(* ------------ trade_logger.py, create_detailed_trade_log -------------- *)

\* variant: the percentage of the position size is added to the balance
gross_profitAsPercent(buy_trade, sell_trade) ==
    (100 * sell_trade.Profit) \div (buy_trade.Shares * buy_trade.Price)

\* line 49: sell_trade.get('Profit', ...); every exit carries its Profit
gross_profit(buy_trade, sell_trade) == sell_trade.Profit

\* line 50
gross_profit_pct(buy_trade, sell_trade) ==
    IF buy_trade.Shares * buy_trade.Price > 0
    THEN Ratio(100 * gross_profit(buy_trade, sell_trade),
               buy_trade.Shares * buy_trade.Price)
    ELSE Ratio(0, 1)

\* line 59
trade_result(profit) ==
    IF profit > 0 THEN "Win" ELSE IF profit < 0 THEN "Loss" ELSE "Break-even"

\* lines 61-76; the amounts are whole currency units, which round(x, 2)
\* leaves as they are, and the dates are kept as day numbers
trade_entry(trade_number, buy_trade, sell_trade, running_balance) ==
    [Trade_Number |-> trade_number,
     Entry_Date |-> buy_trade.Date,
     Entry_Price |-> buy_trade.Price,
     Exit_Date |-> sell_trade.Date,
     Exit_Price |-> sell_trade.Price,
     Shares |-> buy_trade.Shares,
     Position_Size |-> buy_trade.Shares * buy_trade.Price,
     Gross_Profit |-> gross_profit(buy_trade, sell_trade),
     Profit_Percent |-> gross_profit_pct(buy_trade, sell_trade),
     Holding_Days |-> sell_trade.Date - buy_trade.Date,
     Trade_Result |-> trade_result(gross_profit(buy_trade, sell_trade)),
     Running_Balance |-> running_balance,
     Trade_Type |-> sell_trade.Type]

\* lines 26-80: the while loop from position k on (trades[k] is the code's
\* trades[i] with i = k - 1)
RECURSIVE trade_log_from(_, _, _, _)
trade_log_from(tr, k, trade_number, running_balance) ==
    IF k > Len(tr) THEN << >>
    ELSE IF tr[k].Type = "Buy"
         THEN IF k + 1 <= Len(tr) /\ tr[k + 1].Type \in {"Sell", "Final Sell"}
              THEN LET balance == running_balance
                                     + gross_profit(tr[k], tr[k + 1])
                   IN  <<trade_entry(trade_number + 1, tr[k], tr[k + 1],
                                     balance)>>
                       \o trade_log_from(tr, k + 2, trade_number + 1, balance)
              ELSE trade_log_from(tr, k + 1, trade_number + 1,
                                  running_balance)
    ELSE trade_log_from(tr, k + 1, trade_number, running_balance)

\* create_detailed_trade_log(trades, ticker, initial_cash) on the list
\* backtest_strategy returned; an empty list gives an empty frame (lines 17-19)
CreateDetailedTradeLog ==
    /\ pc = "done"
    /\ trade_log_pc = "idle"
    /\ trade_log' = IF trades = << >> THEN << >>
                    ELSE trade_log_from(trades, 1, 0, initial_cash)
    /\ trade_log_pc' = "returned"
    /\ UNCHANGED <<metrics, metrics_pc>>
    /\ UNCHANGED <<backtest_vars, signals_vars, heiken_vars, constant_close, weekly_vars, rerun_vars>>

\* backtest_strategy, then the two reports on what it returned
ReportNext ==
    \/ MainPass
    \/ FinalLiquidation
    \/ CalculatePerformanceMetrics
    \/ CreateDetailedTradeLog

ReportSpec == Init /\ [][ReportNext]_vars

(* ------- stock_backtesting_algorithm.py, backtest_strategy ------------ *)

\* the index label of the k-th row of weekly.iloc[21:]: after reset_index
\* the rows are numbered from 0, and iterrows() yields that number as date
WeekDate(k) == 20 + k

\* line 52
cond1(row) == row.Close <= row.MA10

\* line 54
cond2(row) == row.MA10 <= row.MA10_prev

\* line 56
cond3(row) == row.MA10 <= row.MA21

\* line 86: sum([row['cond1'], row['cond2'], row['cond3']])
conditions_met(row) ==
    (IF cond1(row) THEN 1 ELSE 0) + (IF cond2(row) THEN 1 ELSE 0)
        + (IF cond3(row) THEN 1 ELSE 0)

\* the rows the loop can read next: MA10_prev is the MA10 of the week before
\* (line 43), which for the first row of the loop is outside weekly.iloc[21:]
WeeklyRows ==
    { [Close |-> c, MA10 |-> f, MA10_prev |-> p, MA21 |-> s] :
         c \in WeeklyCloses, f \in MA10s, s \in MA21s,
         p \in IF weekly = << >> THEN MA10s ELSE {weekly[Len(weekly)].MA10} }

\* lines 91-98 and 109-116
WeeklyTrade(entry, exit, shares, sell_price, cost) ==
    [entry_date |-> entry, exit_date |-> exit, shares |-> shares,
     sell_price |-> sell_price, proceeds |-> shares * sell_price,
     profit |-> (shares * sell_price) - cost]

\* Every week has a Close and both averages (the loop starts after the
\* 21-week window is filled).
WeeklyInit ==
    /\ initial_cash = 0
    /\ n = 0
    /\ df = << >>
    /\ i = 0
    /\ cash = 0
    /\ position = 0
    /\ entry_price = 0
    /\ trades = << >>
    /\ pc = "idle"
    /\ holding_column = FALSE
    /\ first_day = 0
    /\ signals_n = 0
    /\ signals_df = << >>
    /\ signals_i = 0
    /\ signals_pc = "idle"
    /\ raw_df = << >>
    /\ ha_open = << >>
    /\ ha_df = << >>
    /\ ha_pc = "idle"
    /\ constant_close = 0
    /\ RerunIdle
    /\ ReportIdle
    /\ max_shares \in MaxShares
    /\ weekly_n \in 0..MaxWeeks
    /\ weekly = << >>
    /\ weekly_position = 0
    /\ total_cost = 0
    /\ entry_date = None
    /\ portfolio = 0
    /\ weekly_signals = << >>
    /\ weekly_trades = << >>
    /\ weekly_pc = "loop"

\* lines 71-103: one iteration of the loop over weekly.iloc[21:]
Week ==
    /\ weekly_pc = "loop"
    /\ Len(weekly) < weekly_n
    /\ \E row \in WeeklyRows :
         LET date == WeekDate(Len(weekly) + 1)
             buy == ~cond1(row) /\ ~cond2(row) /\ ~cond3(row)
                       /\ portfolio < max_shares
             position1 == IF buy THEN weekly_position + 1 ELSE weekly_position
             total_cost1 == IF buy THEN total_cost + row.Close ELSE total_cost
             signals1 == IF buy
                         THEN Append(weekly_signals,
                                     <<date, "BUY", row.Close, position1>>)
                         ELSE weekly_signals
             portfolio1 == IF buy THEN portfolio + 1 ELSE portfolio
             entry_date1 == IF entry_date = None THEN date ELSE entry_date
             sell == conditions_met(row) > 0 /\ position1 > 0
         IN  /\ weekly' = Append(weekly, row)
             /\ IF sell
                THEN /\ weekly_signals' =
                          Append(signals1, <<date, "SELL", row.Close, position1,
                                             conditions_met(row)>>)
                     /\ weekly_trades' =
                          Append(weekly_trades,
                                 WeeklyTrade(entry_date1, date, position1,
                                             row.Close, total_cost1))
                     /\ weekly_position' = 0
                     /\ total_cost' = 0
                     /\ entry_date' = None
                     /\ portfolio' = 0
                ELSE /\ weekly_signals' = signals1
                     /\ weekly_position' = position1
                     /\ total_cost' = total_cost1
                     /\ entry_date' = entry_date1
                     /\ portfolio' = portfolio1
                     /\ UNCHANGED weekly_trades
    /\ UNCHANGED <<max_shares, weekly_n, weekly_pc>>
    /\ UNCHANGED <<backtest_vars, signals_vars, heiken_vars, constant_close,
                   report_vars, rerun_vars>>

\* lines 104-118: what is still held is sold at the last week's Close, and
\* the function returns
WeeklyReturn ==
    /\ weekly_pc = "loop"
    /\ Len(weekly) = weekly_n
    /\ weekly_pc' = "done"
    /\ IF weekly_position > 0
       THEN LET last_date == WeekDate(weekly_n)
                last_close == weekly[weekly_n].Close
            IN  /\ weekly_signals' =
                      Append(weekly_signals,
                             <<last_date, "SELL", last_close, weekly_position>>)
                /\ weekly_trades' =
                      Append(weekly_trades,
                             WeeklyTrade(entry_date, last_date, weekly_position,
                                         last_close, total_cost))
       ELSE UNCHANGED <<weekly_signals, weekly_trades>>
    /\ UNCHANGED <<max_shares, weekly_n, weekly, weekly_position, total_cost,
                   entry_date, portfolio>>
    /\ UNCHANGED <<backtest_vars, signals_vars, heiken_vars, constant_close,
                   report_vars, rerun_vars>>

WeeklyNext == Week \/ WeeklyReturn

WeeklySpec == WeeklyInit /\ [][WeeklyNext]_vars

(* ----- summary_metrics.py: generate_signals, then backtest_strategy ---- *)

\* a bar inside the warm-up of both rolling means
AveragesUndefined(row) == row.HA_50_MA = NaN /\ row.HA_100_MA = NaN

\* The table is shorter than both windows and all its bars close at
\* constant_close; it has no Current_Holding column.
PipelineInit ==
    /\ initial_cash \in InitialCashes
    /\ n = 0
    /\ df = << >>
    /\ i = 0
    /\ cash = 0
    /\ position = 0
    /\ entry_price = 0
    /\ trades = << >>
    /\ pc = "idle"
    /\ holding_column = FALSE
    /\ first_day \in FirstDays
    /\ signals_n \in 0..MaxPipelineBars
    /\ signals_df = << >>
    /\ signals_i = 0
    /\ signals_pc = "loop"
    /\ raw_df = << >>
    /\ ha_open = << >>
    /\ ha_df = << >>
    /\ ha_pc = "idle"
    /\ constant_close \in ConstantCloses
    /\ RerunIdle
    /\ WeeklyIdle
    /\ ReportIdle

PipelineFirstBar ==
    /\ pc = "idle"
    /\ FirstBar
    /\ AveragesUndefined(signals_df'[1])

PipelineSignalBar ==
    /\ pc = "idle"
    /\ SignalBar
    /\ AveragesUndefined(signals_df'[signals_i + 1])

PipelineSignalsReturn ==
    /\ pc = "idle"
    /\ SignalsReturn

\* summary_metrics.py line 47 and backtest.py lines 5-17: the table with the
\* signals is handed to backtest_strategy
PipelineBacktestCall ==
    /\ signals_pc = "done"
    /\ pc = "idle"
    /\ pc' = "loop"
    /\ n' = signals_n
    /\ cash' = initial_cash
    /\ UNCHANGED <<initial_cash, df, i, position, entry_price, trades>>
    /\ UNCHANGED <<signals_vars, heiken_vars, constant_close, report_vars, weekly_vars, rerun_vars>>

\* the main pass reads the signals generate_signals stored on the bar
PipelineMainPass ==
    /\ pc = "loop"
    /\ i < n
    /\ Bar(constant_close, signals_df[i + 1].Buy_Signal,
           signals_df[i + 1].Sell_Signal)

PipelineNext ==
    \/ PipelineFirstBar
    \/ PipelineSignalBar
    \/ PipelineSignalsReturn
    \/ PipelineBacktestCall
    \/ PipelineMainPass
    \/ FinalLiquidation

PipelineSpec == PipelineInit /\ [][PipelineNext]_vars

(* ------------------ the same call made a second time ------------------ *)

\* variant: the trade list of the previous call is carried into the next
EnterStateSharedTrades(initial, left) == State(initial, 0, 0, left.trades)

\* backtest.py lines 10-13: cash, position, entry_price and trades are new
\* locals on every call, whatever state the previous call ended in
EnterState(initial, left) == State(initial, 0, 0, << >>)

\* strategy.py lines 11-12: the signal columns of the input are overwritten
InputColumns(row) == [row EXCEPT !.Buy_Signal = FALSE, !.Sell_Signal = FALSE]

FirstRun ==
    [df |-> df, trades |-> trades, metrics |-> metrics,
     metrics_pc |-> metrics_pc, signals_df |-> signals_df]

\* the first call is backtest_strategy and calculate_performance_metrics, or
\* generate_signals
TwiceInit ==
    \/ /\ Init
       /\ n <= MaxTwiceBars
    \/ /\ SignalInit
       /\ holding_column = FALSE
       /\ first_day \in TwiceFirstDays

\* backtest_strategy is called again with the table and the initial cash of
\* the first call
BacktestCalledAgain ==
    /\ run = 1
    /\ pc = "done"
    /\ metrics_pc # "idle"
    /\ first_run' = FirstRun
    /\ run' = 2
    /\ LET S == EnterState(initial_cash,
                           State(cash, position, entry_price, trades))
       IN  /\ cash' = S.cash
           /\ position' = S.position
           /\ entry_price' = S.entry_price
           /\ trades' = S.trades
    /\ df' = << >>
    /\ i' = 0
    /\ pc' = "loop"
    /\ metrics' = << >>
    /\ metrics_pc' = "idle"
    /\ UNCHANGED <<initial_cash, n, trade_log, trade_log_pc>>
    /\ UNCHANGED <<signals_vars, heiken_vars, constant_close, weekly_vars>>

\* the main pass of the second call reads the rows the first call read
MainPassAgain ==
    /\ run = 2
    /\ pc = "loop"
    /\ i < n
    /\ Bar(first_run.df[i + 1].Close, first_run.df[i + 1].Buy_Signal,
           first_run.df[i + 1].Sell_Signal)

\* calculate_performance_metrics is called again on the table and the trade
\* list of the first call; the table has the two columns the first call
\* stored in it
MetricsCalledAgain ==
    /\ run = 1
    /\ pc = "done"
    /\ metrics_pc # "idle"
    /\ first_run' = FirstRun
    /\ run' = 2
    /\ metrics' = << >>
    /\ metrics_pc' = "idle"
    /\ UNCHANGED <<trade_log, trade_log_pc>>
    /\ UNCHANGED <<backtest_vars, signals_vars, heiken_vars, constant_close,
                   weekly_vars>>

\* generate_signals is called again with the table of the first call
SignalsCalledAgain ==
    /\ run = 1
    /\ signals_pc = "done"
    /\ first_run' = FirstRun
    /\ run' = 2
    /\ signals_df' = << >>
    /\ signals_i' = 0
    /\ signals_pc' = "loop"
    /\ UNCHANGED <<holding_column, first_day, signals_n>>
    /\ UNCHANGED <<backtest_vars, heiken_vars, constant_close, report_vars,
                   weekly_vars>>

FirstBarAgain ==
    /\ run = 2
    /\ FirstBar
    /\ InputColumns(signals_df'[1]) = InputColumns(first_run.signals_df[1])

SignalBarAgain ==
    /\ run = 2
    /\ SignalBar
    /\ InputColumns(signals_df'[signals_i + 1])
          = InputColumns(first_run.signals_df[signals_i + 1])

TwiceNext ==
    \/ run = 1 /\ MainPass
    \/ FinalLiquidation
    \/ CalculatePerformanceMetrics
    \/ BacktestCalledAgain
    \/ MainPassAgain
    \/ MetricsCalledAgain
    \/ run = 1 /\ FirstBar
    \/ run = 1 /\ SignalBar
    \/ SignalsReturn
    \/ SignalsCalledAgain
    \/ FirstBarAgain
    \/ SignalBarAgain

TwiceSpec == TwiceInit /\ [][TwiceNext]_vars

(* ------------------- properties of backtest_strategy ------------------ *)

IsExit(t) == t.Type \in {"Sell", "Final Sell"}

\* the row the main pass has just gone through, in the state after the step
MainPassStep == pc = "loop" /\ i' = i + 1

\* C1: in the returned table every bar's Total_Value equals its Cash plus its
\* Holdings, the last bar after the liquidation branches included.
C1_TotalIsCashPlusHoldings ==
    pc = "done" =>
        \A k \in 1..Len(df) : df[k].Total_Value = df[k].Cash + df[k].Holdings

\* C2: cash is never negative, after any bar and after the final liquidation,
\* and every executed Buy was affordable: the cash before it (the balance the
\* previous trade left) is its cost plus a remainder >= 0.
C2_CashNeverNegative ==
    /\ cash >= 0
    /\ \A k \in 1..Len(trades) :
          trades[k].Type = "Buy" =>
              /\ trades[k].Cash_After >= 0
              /\ trades[k].Cash_After + trades[k].Shares * trades[k].Price
                     = IF k = 1 THEN initial_cash ELSE trades[k - 1].Cash_After

\* a run ended in which a Buy took the whole balance and was liquidated
C2_Witness ==
    /\ pc = "done"
    /\ \E k \in 1..Len(trades) :
          trades[k].Type = "Buy" /\ trades[k].Cash_After = 0
    /\ trades[Len(trades)].Type = "Final Sell"

\* C3: between two Buy trades of the list there is always a Sell or a Final
\* Sell: no Buy is recorded while a position is open.
C3_NoOverlappingPositions ==
    \A a, b \in 1..Len(trades) :
        (a < b /\ trades[a].Type = "Buy" /\ trades[b].Type = "Buy") =>
            \E c \in (a + 1)..(b - 1) : IsExit(trades[c])

\* a bar with a Buy signal and a defined price went by while shares were held,
\* without a trade, between a Buy and its Sell
C3_Witness ==
    /\ Len(trades) = 2
    /\ trades[1].Type = "Buy"
    /\ trades[2].Type = "Sell"
    /\ \E k \in 1..Len(df) :
          /\ trades[1].Date < k
          /\ k < trades[2].Date
          /\ df[k].Buy_Signal
          /\ ~isna(df[k].Close)
          /\ df[k].Holdings > 0

\* C5, as claimed: no two trades of a run carry the same date, the forced
\* liquidation included.
C5_OneTradePerDate ==
    \A a, b \in 1..Len(trades) :
        a # b => trades[a].Date # trades[b].Date

\* C5, amended: two trades carry the same date only when they are a Buy
\* executed on the last bar and the Final Sell that liquidates it; the main
\* pass records at most one trade per bar.
C5_OneTradePerBarInMainPass ==
    \A a, b \in 1..Len(trades) :
        (a < b /\ trades[a].Date = trades[b].Date) =>
            /\ b = a + 1
            /\ b = Len(trades)
            /\ trades[a].Type = "Buy"
            /\ trades[b].Type = "Final Sell"
            /\ trades[a].Date = Date(n)
            /\ pc = "done"

\* a bar with both signals set opened a position and did not close it, a
\* later bar closed it, and a Buy on the last bar shares its date with the
\* Final Sell
C5_Witness ==
    /\ pc = "done"
    /\ Len(trades) = 4
    /\ trades[1].Type = "Buy"
    /\ df[trades[1].Date].Sell_Signal
    /\ trades[2].Type = "Sell"
    /\ trades[1].Date < trades[2].Date
    /\ trades[3].Type = "Buy"
    /\ trades[4].Type = "Final Sell"
    /\ trades[3].Date = trades[4].Date

\* C6: a Buy signal on a bar with a defined price p, no shares held,
\* floor(10000 / p) > 0 shares and enough cash: cash falls by shares * p, the
\* position is that whole number of shares, the entry price is p and exactly
\* one Buy trade with these values is appended.
C6_BuyStep ==
    [][ MainPassStep =>
          LET p == df'[i'].Close
              shares == 10000 \div p
          IN  ( /\ p # NaN
                /\ df'[i'].Buy_Signal
                /\ position = 0
                /\ shares > 0
                /\ cash >= shares * p )
              => /\ shares * p <= 10000
                 /\ 10000 < (shares + 1) * p
                 /\ cash' = cash - shares * p
                 /\ position' = shares
                 /\ entry_price' = p
                 /\ trades' = Append(trades,
                       [Type |-> "Buy", Date |-> df'[i'].Date, Price |-> p,
                        Shares |-> shares, Cash_After |-> cash'])
      ]_vars

\* the example: p = 20 buys 500 shares for exactly 10,000
C6_Witness ==
    /\ pc = "loop"
    /\ i >= 1
    /\ df[i].Close = 20
    /\ position = 500
    /\ entry_price = 20
    /\ cash = initial_cash - 10000
    /\ trades = <<[Type |-> "Buy", Date |-> i, Price |-> 20, Shares |-> 500,
                   Cash_After |-> cash]>>

\* C7: a Sell signal on a bar with a defined price p while n > 0 shares are
\* held at entry price e: cash rises by n * p, exactly one Sell trade with
\* Shares = n and Profit = n * p - n * e is appended, the position is reset.
C7_SellStep ==
    [][ MainPassStep =>
          LET p == df'[i'].Close
          IN  ( /\ p # NaN
                /\ df'[i'].Sell_Signal
                /\ position > 0 )
              => /\ cash' = cash + position * p
                 /\ position' = 0
                 /\ entry_price' = 0
                 /\ trades' = Append(trades,
                       [Type |-> "Sell", Date |-> df'[i'].Date, Price |-> p,
                        Shares |-> position, Cash_After |-> cash',
                        Profit |-> position * p - position * entry_price])
      ]_vars

\* the example: 500 shares bought at 20 and sold at 25, profit 2,500
C7_Witness ==
    /\ pc = "loop"
    /\ Len(trades) = 2
    /\ trades[1].Type = "Buy" /\ trades[1].Price = 20 /\ trades[1].Shares = 500
    /\ trades[2].Type = "Sell" /\ trades[2].Price = 25 /\ trades[2].Shares = 500
    /\ trades[2].Profit = 2500
    /\ trades[2].Cash_After = trades[1].Cash_After + 12500
    /\ cash = initial_cash + 2500
    /\ position = 0

\* C8: a Buy signal with no shares held that buys zero shares or costs more
\* than the cash records no trade and leaves cash, position and entry price
\* as they were.
C8_SoftRejection ==
    [][ MainPassStep =>
          LET p == df'[i'].Close
              shares == 10000 \div p
          IN  ( /\ p # NaN
                /\ df'[i'].Buy_Signal
                /\ position = 0
                /\ (shares = 0 \/ cash < shares * p) )
              => /\ trades' = trades
                 /\ cash' = cash
                 /\ position' = position
                 /\ entry_price' = entry_price
      ]_vars

\* both rejections in one run: too dear for one share, then no cash
C8_Witness ==
    /\ i = 2
    /\ df[1].Buy_Signal /\ df[1].Close = 10001
    /\ df[2].Buy_Signal /\ df[2].Close = 20
    /\ cash < 10000
    /\ trades = << >>
    /\ position = 0

\* C9: a bar whose Close is undefined records no trade and leaves cash,
\* position and entry price as they were, whatever its signals.
C9_UndefinedPriceSkipsBar ==
    [][ (MainPassStep /\ df'[i'].Close = NaN) =>
            /\ trades' = trades
            /\ cash' = cash
            /\ position' = position
            /\ entry_price' = entry_price
      ]_vars

\* an undefined bar with both signals set went by while shares were held
C9_Witness ==
    /\ pc = "loop"
    /\ i >= 2
    /\ df[i].Close = NaN
    /\ df[i].Buy_Signal
    /\ df[i].Sell_Signal
    /\ position > 0
    /\ Len(trades) = 1

\* C10: after each bar of the main pass, an undefined one included, the
\* bar's snapshot holds the cash carried forward, Holdings = shares_held *
\* price with price 0 when undefined, and Total_Value = cash + holdings.
C10_SnapshotAfterEveryBar ==
    (pc = "loop" /\ i >= 1) =>
        LET price == IF isna(df[i].Close) THEN 0 ELSE df[i].Close
        IN  /\ df[i].Cash = cash
            /\ df[i].Holdings = position * price
            /\ df[i].Total_Value = cash + position * price

\* the step that ends the run: the final liquidation and the return
LiquidationStep == pc = "loop" /\ pc' = "done"

\* C11: shares held after the last bar and a defined last price: a Final Sell
\* at the last bar's price for all held shares is appended, with Profit =
\* shares * last_price - shares * entry_price, the position ends at 0 and the
\* last bar's snapshot has Holdings = 0 and Total_Value = Cash = the new cash.
C11_ForcedLiquidation ==
    [][ (LiquidationStep /\ position > 0 /\ df[n].Close # NaN) =>
          LET last_price == df[n].Close
          IN  /\ cash' = cash + position * last_price
              /\ trades' = Append(trades,
                    [Type |-> "Final Sell", Date |-> df[n].Date,
                     Price |-> last_price, Shares |-> position,
                     Cash_After |-> cash',
                     Profit |-> position * last_price - position * entry_price])
              /\ position' = 0
              /\ Len(df') = n
              /\ df'[n].Holdings = 0
              /\ df'[n].Cash = cash'
              /\ df'[n].Total_Value = cash'
      ]_vars

\* a position bought on an earlier bar was liquidated at another price on a
\* last bar that had recorded its value as Holdings
C11_Witness ==
    /\ pc = "done"
    /\ Len(trades) = 2
    /\ trades[1].Type = "Buy"
    /\ trades[2].Type = "Final Sell"
    /\ trades[1].Date < trades[2].Date
    /\ trades[2].Profit > 0
    /\ trades[2].Date = n
    /\ df[n].Holdings = 0
    /\ df[n].Total_Value = cash
    /\ position = 0

\* C12: shares held after the pass and an undefined last price: no Final
\* Sell, cash and position unchanged, the last bar's snapshot reports
\* Holdings = 0 and Total_Value = the current cash.
C12_LiquidationSkipped ==
    [][ (LiquidationStep /\ position > 0 /\ df[n].Close = NaN) =>
          /\ trades' = trades
          /\ cash' = cash
          /\ position' = position
          /\ entry_price' = entry_price
          /\ Len(df') = n
          /\ df'[n].Holdings = 0
          /\ df'[n].Total_Value = cash
      ]_vars

\* a run ended with shares still held, cash left and an undefined last price
C12_Witness ==
    /\ pc = "done"
    /\ position > 0
    /\ cash > 0
    /\ df[n].Close = NaN
    /\ df[n].Total_Value = cash
    /\ trades[Len(trades)].Type = "Buy"

\* minus cost on a Buy, plus proceeds on a Sell or a Final Sell
CashDelta(t) ==
    IF t.Type = "Buy" THEN 0 - (t.Shares * t.Price) ELSE t.Shares * t.Price

RECURSIVE SumCashDeltas(_)
SumCashDeltas(tr) ==
    IF tr = << >> THEN 0
    ELSE CashDelta(tr[Len(tr)]) + SumCashDeltas(SubSeq(tr, 1, Len(tr) - 1))

RECURSIVE RealizedProfit(_)
RealizedProfit(tr) ==
    IF tr = << >> THEN 0
    ELSE (IF IsExit(tr[Len(tr)]) THEN tr[Len(tr)].Profit ELSE 0)
         + RealizedProfit(SubSeq(tr, 1, Len(tr) - 1))

\* C13, as claimed: over a whole run the sum of the cash deltas of the trades
\* plus the final cash equals the initial cash plus the realized profit.
C13_DeltasPlusFinalCash ==
    pc = "done" =>
        SumCashDeltas(trades) + cash = initial_cash + RealizedProfit(trades)

\* C13, amended: over a whole run the initial cash plus the sum of the cash
\* deltas of the trades equals the final cash, and when the run ends with no
\* open position that is the initial cash plus the realized profit.
C13_Conservation ==
    pc = "done" =>
        /\ initial_cash + SumCashDeltas(trades) = cash
        /\ position = 0 => cash = initial_cash + RealizedProfit(trades)

\* a run with a losing round trip, then a Buy closed by the forced liquidation
C13_Witness ==
    /\ pc = "done"
    /\ Len(trades) = 4
    /\ trades[2].Type = "Sell"
    /\ trades[2].Profit < 0
    /\ trades[4].Type = "Final Sell"
    /\ RealizedProfit(trades) # 0
    /\ cash = initial_cash + RealizedProfit(trades)
    /\ position = 0

\* C27: the returned trade list alternates Buy, exit, Buy, exit, ... from a
\* Buy on; a Final Sell is the last element if there is one; the dates never
\* go back; and the list ends with a Buy only if the last bar has no price.
C27_TradesAlternate ==
    pc = "done" =>
        /\ \A k \in 1..Len(trades) :
              /\ (k % 2 = 1) => trades[k].Type = "Buy"
              /\ (k % 2 = 0) => IsExit(trades[k])
              /\ trades[k].Type = "Final Sell" => k = Len(trades)
              /\ k > 1 => trades[k - 1].Date <= trades[k].Date
        /\ (trades # << >> /\ trades[Len(trades)].Type = "Buy")
              => (n > 0 /\ isna(df[n].Close))

\* a Buy on the first of three bars that the missing last price leaves open,
\* although the last bar carries a Sell signal
C27_Witness ==
    /\ pc = "done"
    /\ n = 3
    /\ Len(trades) = 1
    /\ trades[1].Type = "Buy"
    /\ trades[1].Date = Date(1)
    /\ isna(df[n].Close)
    /\ df[n].Sell_Signal
    /\ position > 0

\* C28: when the run ends with no open position the Total_Value of the last
\* row is the final cash, and the initial cash when nothing was traded, also
\* when the last price is undefined.
C28_FinalValueIsFinalCash ==
    (pc = "done" /\ n > 0 /\ position = 0) =>
        /\ df[n].Total_Value = cash
        /\ trades = << >> => df[n].Total_Value = initial_cash

\* C30: shares are held exactly when the last recorded trade is a Buy; the
\* position is then that Buy's Shares, at least one share costing at most the
\* allocation, and entry_price its Price; with no shares held entry_price
\* is 0.
C30_StateMatchesLedger ==
    /\ position > 0 <=> (trades # << >> /\ trades[Len(trades)].Type = "Buy")
    /\ position > 0 =>
          LET last == trades[Len(trades)]
          IN  /\ position = last.Shares
              /\ last.Shares >= 1
              /\ last.Shares * last.Price <= Allocation
              /\ entry_price = last.Price
    /\ position = 0 => entry_price = 0
    /\ position >= 0

\* during the main pass: shares held after a Buy that followed a Sell
C30_Witness ==
    /\ pc = "loop"
    /\ i = 3
    /\ Len(trades) = 3
    /\ trades[2].Type = "Sell"
    /\ position > 0
    /\ entry_price = df[3].Close
    /\ entry_price # trades[1].Price

(* -------------------- properties of generate_signals ------------------ *)

\* C4: no bar of the output has Buy_Signal and Sell_Signal both true; a bar
\* on which the Sell rules and the Buy rules (buy day, under the cap) all
\* hold gets the Sell signal only.
C4_BuyAndSellExclusive ==
    \A k \in 1..Len(signals_df) :
        LET row == signals_df[k]
        IN  /\ ~(row.Buy_Signal /\ row.Sell_Signal)
            /\ ( /\ k >= 2
                 /\ SellRules(signals_df[k - 1], row)
                 /\ weekday(row.Date) \in {0, 2, 4}
                 /\ row.Current_Holding < 10000 )
               => (row.Sell_Signal /\ ~row.Buy_Signal)

\* a buy day under the cap on which the three Sell rules hold
C4_Witness ==
    /\ signals_pc = "done"
    /\ \E k \in 2..Len(signals_df) :
          /\ SellRules(signals_df[k - 1], signals_df[k])
          /\ weekday(signals_df[k].Date) \in {0, 2, 4}
          /\ signals_df[k].Current_Holding < 10000
          /\ signals_df[k].Sell_Signal
          /\ ~signals_df[k].Buy_Signal

\* a moving average of the bar is undefined (its window is not filled)
AverageUndefined(row) == row.HA_50_MA = NaN \/ row.HA_100_MA = NaN

Less(a, b) == a # NaN /\ b # NaN /\ a < b
LessEq(a, b) == a # NaN /\ b # NaN /\ (a < b \/ a = b)

\* C16: Sell_Signal[i] is true exactly when i is not the first bar and
\* HA_Close[i] < HA_100_MA[i], HA_50_MA[i] <= HA_50_MA[i-1] and (MACD_Hist[i]
\* < 0 or MACD_Hist[i] < MACD_Hist[i-1]), comparisons with an undefined
\* operand counting as false.
C16_SellSignalRule ==
    \A k \in 1..Len(signals_df) :
        signals_df[k].Sell_Signal <=>
            /\ k >= 2
            /\ Less(signals_df[k].HA_Close, signals_df[k].HA_100_MA)
            /\ LessEq(signals_df[k].HA_50_MA, signals_df[k - 1].HA_50_MA)
            /\ \/ Less(signals_df[k].MACD_Hist, 0)
               \/ Less(signals_df[k].MACD_Hist, signals_df[k - 1].MACD_Hist)

\* a Sell signal from a flat fast average and a positive, falling histogram
C16_Witness ==
    /\ signals_pc = "done"
    /\ Len(signals_df) >= 2
    /\ ~signals_df[1].Sell_Signal
    /\ signals_df[2].Sell_Signal
    /\ signals_df[2].HA_50_MA = signals_df[1].HA_50_MA
    /\ signals_df[2].MACD_Hist = 1
    /\ signals_df[1].MACD_Hist = 2

\* C17: Buy_Signal[i] is true exactly when i is not the first bar, the
\* weekday is Monday, Wednesday or Friday, Current_Holding[i] is below 10000
\* and Sell_Signal[i] is false; an absent Current_Holding column counts as 0.
C17_BuySignalRule ==
    \A k \in 1..Len(signals_df) :
        /\ signals_df[k].Buy_Signal <=>
              /\ k >= 2
              /\ weekday(signals_df[k].Date) \in {0, 2, 4}
              /\ signals_df[k].Current_Holding < 10000
              /\ ~signals_df[k].Sell_Signal
        /\ ~holding_column => signals_df[k].Current_Holding = 0

\* a table without the column gets a Buy signal on its second bar, a Monday,
\* while the first bar, a Sunday, has none
C17_Witness ==
    /\ signals_pc = "done"
    /\ ~holding_column
    /\ Len(signals_df) = 2
    /\ weekday(signals_df[2].Date) = 0
    /\ signals_df[2].Buy_Signal
    /\ ~signals_df[1].Buy_Signal

(* ---------------- properties of calculate_heiken_ashi ----------------- *)

RowDefined(row) ==
    row.Open # NaN /\ row.High # NaN /\ row.Low # NaN /\ row.Close # NaN

\* bar k and all the bars before it have defined prices
DefinedUpTo(k) == \A j \in 1..k : RowDefined(raw_df[j])

\* C18: on every returned bar computed from defined prices, HA_High is the
\* largest of High, HA_Open and HA_Close and HA_Low the smallest of Low,
\* HA_Open and HA_Close; so HA_High is at least HA_Open and HA_Close, HA_Low
\* at most HA_Open and HA_Close, and HA_Low at most HA_High.
C18_HighLowEnvelope ==
    ha_pc = "done" =>
        \A k \in 1..Len(ha_df) :
            DefinedUpTo(k) =>
                LET b == ha_df[k]
                IN  /\ b.High = raw_df[k].High
                    /\ b.Low = raw_df[k].Low
                    /\ b.HA_High = Max({b.High, b.HA_Open, b.HA_Close})
                    /\ b.HA_Low = Min({b.Low, b.HA_Open, b.HA_Close})
                    /\ b.HA_High >= b.HA_Open /\ b.HA_High >= b.HA_Close
                    /\ b.HA_Low <= b.HA_Open /\ b.HA_Low <= b.HA_Close
                    /\ b.HA_Low <= b.HA_High

\* a second bar whose High is the lowest of its prices opens, after a dearer
\* first bar, above its own High: HA_High is HA_Open, not High
C18_Witness ==
    /\ ha_pc = "done"
    /\ Len(ha_df) = 2
    /\ DefinedUpTo(2)
    /\ ha_df[2].HA_Open > ha_df[2].High
    /\ ha_df[2].HA_Open > ha_df[2].HA_Close
    /\ ha_df[2].HA_High = ha_df[2].HA_Open
    /\ ha_df[2].HA_Low < ha_df[2].HA_Close

\* HA_Open recomputed from the returned HA_Close column and the returned
\* first HA_Open
RECURSIVE RecomputedOpen(_)
RecomputedOpen(k) ==
    IF k = 1
    THEN ha_df[1].HA_Open
    ELSE (RecomputedOpen(k - 1) + ha_df[k - 1].HA_Close) \div 2

\* C19: on defined prices HA_Close is a quarter of Open + High + Low + Close,
\* the first HA_Open is half of Open + Close, every later HA_Open is half of
\* the previous bar's HA_Open + HA_Close, and the recurrence run again over
\* the returned HA_Close column from the returned first HA_Open gives the
\* returned HA_Open column.
C19_OpenRecurrence ==
    ha_pc = "done" =>
        /\ Len(ha_df) = Len(raw_df)
        /\ \A k \in 1..Len(ha_df) :
              DefinedUpTo(k) =>
                  LET b == ha_df[k]
                      r == raw_df[k]
                  IN  /\ 4 * b.HA_Close = r.Open + r.High + r.Low + r.Close
                      /\ k = 1 => 2 * b.HA_Open = r.Open + r.Close
                      /\ k > 1 => 2 * b.HA_Open =
                                    ha_df[k - 1].HA_Open + ha_df[k - 1].HA_Close
                      /\ b.HA_Open = RecomputedOpen(k)

\* two defined bars, the first with HA_Open and HA_Close apart, so that the
\* second HA_Open is neither of them
C19_Witness ==
    /\ ha_pc = "done"
    /\ Len(ha_df) = 2
    /\ DefinedUpTo(2)
    /\ ha_df[1].HA_Open # ha_df[1].HA_Close
    /\ ha_df[2].HA_Open # ha_df[1].HA_Open
    /\ ha_df[2].HA_Open # ha_df[1].HA_Close

\* C20: given a table without rows calculate_heiken_ashi does not return a
\* table: it ends in the error raised at its first row access.
C20_EmptyTableRaises ==
    (Len(raw_df) = 0 /\ ha_pc # "start") =>
        (ha_pc = "IndexError" /\ ha_df = << >> /\ ha_open = << >>)

C20_Witness ==
    /\ ha_pc = "IndexError"
    /\ Len(raw_df) = 0

(* ------- properties of generate_signals, then backtest_strategy ------- *)

C21_MetricsAlwaysReturn ==
    (n > 0 /\ metrics_pc # "idle") =>
        /\ metrics_pc = "returned"
        /\ LET completed == SelectSeq(trades, IsExit)
           IN  IF completed = << >>
               THEN metrics.win_rate.num = 0 /\ metrics.win_rate.den # 0
               ELSE /\ metrics.win_rate.den = Len(completed)
                    /\ metrics.win_rate.num =
                          100 * Cardinality({ k \in 1..Len(completed) :
                                                completed[k].Profit > 0 })

\* C23: a stage delivers its results only through the value it returns and
\* leaves the table its caller passed in as it was; for
\* calculate_performance_metrics, the table backtest_strategy returned is
\* the same before and after the call.
C23_MetricsLeaveTheTable ==
    [][metrics_pc' # metrics_pc => df' = df]_vars

\* the exits of a trade list, in order
Exits(tr) == SelectSeq(tr, IsExit)

\* C24: once both reports have run, the holding periods of
\* calculate_performance_metrics and the rows of the trade log are the same
\* pairs: one per Sell or Final Sell, from the Buy before it to the exit,
\* with a holding time of zero days or more.
C24_SamePairs ==
    (metrics_pc # "idle" /\ trade_log_pc # "idle") =>
        /\ metrics_pc \in {"returned", "IndexError"}
        /\ LET periods == holding_periods(trades, 1, None, << >>)
           IN  /\ Len(periods) = Len(Exits(trades))
               /\ Len(trade_log) = Len(Exits(trades))
               /\ \A k \in 1..Len(trade_log) :
                     /\ trade_log[k].Holding_Days = periods[k]
                     /\ trade_log[k].Holding_Days >= 0
                     /\ trade_log[k].Exit_Date = Exits(trades)[k].Date
                     /\ trade_log[k].Entry_Date = trades[2 * k - 1].Date
               /\ metrics_pc = "returned" =>
                     metrics.avg_holding_period =
                         avg_holding_period(periods)

\* C29: when every Buy of the returned list has been closed, the trade log
\* has one row per Buy, and the Running_Balance of its last row is the final
\* cash, which is the initial cash plus the Profit of all exits.
C29_LogBalanceIsFinalCash ==
    (trade_log_pc = "returned" /\ position = 0) =>
        /\ 2 * Len(trade_log) = Len(trades)
        /\ \A k \in 1..Len(trade_log) :
              /\ trade_log[k].Trade_Number = k
              /\ trade_log[k].Entry_Date = trades[2 * k - 1].Date
              /\ trade_log[k].Shares = trades[2 * k - 1].Shares
        /\ trade_log # << >> =>
              /\ trade_log[Len(trade_log)].Running_Balance = cash
              /\ cash = initial_cash + RealizedProfit(trades)

\* a losing Sell and a Final Sell: two rows, the balance moves twice
C29_Witness ==
    /\ trade_log_pc = "returned"
    /\ Len(trade_log) = 2
    /\ trade_log[1].Trade_Result = "Loss"
    /\ trade_log[2].Trade_Type = "Final Sell"
    /\ trade_log[1].Running_Balance # initial_cash
    /\ trade_log[2].Running_Balance = cash

(* ---------------- properties of the weekly backtest ------------------- *)

\* C25: a SELL recorded inside the loop comes from a week in which at least
\* two of the three sell conditions hold.
C25_SellNeedsTwoConditions ==
    \A k \in 1..Len(weekly_signals) :
        (weekly_signals[k][2] = "SELL" /\ Len(weekly_signals[k]) = 5)
            => weekly_signals[k][5] >= 2

\* the dates of the BUY signals after the week prev_exit, up to the week exit
BuyDates(prev_exit, exit) ==
    { weekly_signals[k][1] : k \in
        { j \in 1..Len(weekly_signals) :
            /\ weekly_signals[j][2] = "BUY"
            /\ weekly_signals[j][1] > prev_exit
            /\ weekly_signals[j][1] <= exit } }

\* C26: the entry_date of every recorded trade is the date of the first BUY
\* signal of its cycle, i.e. of the first BUY after the previous trade's exit.
C26_EntryIsFirstBuy ==
    \A k \in 1..Len(weekly_trades) :
        LET prev_exit == IF k = 1 THEN WeekDate(0)
                         ELSE weekly_trades[k - 1].exit_date
            buys == BuyDates(prev_exit, weekly_trades[k].exit_date)
        IN  /\ buys # {}
            /\ weekly_trades[k].entry_date = Min(buys)

(* ------------------- properties of a second call ---------------------- *)

=============================================================================
